---- MODULE Spec2Model ----
(***************************************************************************)
(* The resumable batch runner of parse-ben-davis-comments.ts: main(),      *)
(* processBatch(), makeCommentRequest(), loadProgress(), saveProgress().   *)
(* Video IDs are opaque strings in the program; here they are numbers.     *)
(***************************************************************************)
EXTENDS Integers, Sequences, FiniteSets, TLC

\* const BATCH_SIZE = 10;
BATCH_SIZE == 10

\* Longest list of video IDs the input document holds.
MaxLen == 12

\* Most dispatches that end in failure while one progress document lives.
MaxFailed == 2

\* new Date().toISOString(): the model keeps no clock, every stamp is this token.
Now == "ISO-8601"

Range(s) == {s[k] : k \in 1..Len(s)}

(***************************************************************************)
(* The input document: the videoIds of the "Ben Davis" channel group.      *)
(* Ids(n) lists n distinct IDs; DupIds(n) lists the first ID again at the  *)
(* end (a string[] read from JSON may repeat an ID).                       *)
(***************************************************************************)
Ids(n) == [k \in 1..n |-> k]

DupIds(n) == [k \in 1..n |-> IF k = n THEN 1 ELSE k]

InputLists ==
  {Ids(n) : n \in 0..MaxLen} \cup {DupIds(2), DupIds(BATCH_SIZE + 1)}

\* The input document can be read, or is missing, or does not parse, or has no
\* channel named "Ben Davis".
InputKinds == {"ok", "missing", "unparseable", "nochannel"}

\* A missing channel read as an empty list instead of an error.
getBenDavisVideoIdsLenient(kind, ids) ==
  IF kind = "nochannel" THEN [exit |-> 0, videoIds |-> <<>>]
  ELSE IF kind = "ok" THEN [exit |-> 0, videoIds |-> ids]
  ELSE [exit |-> 1, videoIds |-> <<>>]

(***************************************************************************)
(* getBenDavisVideoIds(): the channel's videoIds, or process.exit(1) when  *)
(* readFileSync or JSON.parse throws or the channel is not found.          *)
(***************************************************************************)
getBenDavisVideoIds(kind, ids) ==
  IF kind = "ok" THEN [exit |-> 0, videoIds |-> ids]
  ELSE [exit |-> 1, videoIds |-> <<>>]

\* What fetch() can do: resolve with a Response of some status, or reject.
HttpStatuses == {200, 201, 204, 299, 300, 304, 400, 404, 429, 500, 503}

FetchOutcomes ==
  {[kind |-> "response", status |-> s] : s \in HttpStatuses}
    \cup {[kind |-> "error", status |-> 0]}

\* Response.ok of the fetch standard: the status is in the range 200-299.
ResponseOk(status) == status >= 200 /\ status <= 299

\* makeCommentRequest without its try/catch: a rejected fetch rejects the call.
makeCommentRequestNoCatch(out) ==
  IF out.kind = "response"
    THEN [status |-> "fulfilled", value |-> ResponseOk(out.status)]
    ELSE [status |-> "rejected"]

(***************************************************************************)
(* makeCommentRequest(videoId): the completion of the promise it returns,  *)
(* given what fetch() did.  The try/catch turns a rejected fetch into a    *)
(* returned false.                                                         *)
(***************************************************************************)
makeCommentRequest(out) ==
  IF out.kind = "response"
    THEN IF ResponseOk(out.status)
           THEN [status |-> "fulfilled", value |-> TRUE]
           ELSE [status |-> "fulfilled", value |-> FALSE]
    ELSE [status |-> "fulfilled", value |-> FALSE]

\* The async callback of videoIds.map in processBatch.
mapCallback(videoId, out) ==
  LET r == makeCommentRequest(out)
  IN  IF r.status = "fulfilled"
        THEN [status |-> "fulfilled",
              value |-> [videoId |-> videoId, success |-> r.value]]
        ELSE [status |-> "rejected"]

Pending == [status |-> "pending"]

\* Math.ceil(n / d) for n >= 0, d > 0.
MathCeilDiv(n, d) == IF n % d = 0 THEN n \div d ELSE (n \div d) + 1

\* Array.prototype.slice(from, to) with 0 <= from <= to, on a 1-based sequence.
Slice(s, from, to) ==
  LET hi == IF to < Len(s) THEN to ELSE Len(s)
  IN  IF from >= hi THEN <<>> ELSE SubSeq(s, from + 1, hi)

\* The slice taken one short: slice(i, i + BATCH_SIZE - 1).
nextBatchShort(remaining, from) == Slice(remaining, from, from + BATCH_SIZE - 1)

\* main, line 205: remainingVideoIds.slice(i, i + BATCH_SIZE)
nextBatch(remaining, from) == Slice(remaining, from, from + BATCH_SIZE)

\* The delay condition with <= for <: a wait follows a full last batch too.
moreBatchesInclusive(remaining, from) == from + BATCH_SIZE <= Len(remaining)

\* main, line 209: another batch follows this one.
moreBatches(remaining, from) == from + BATCH_SIZE < Len(remaining)

(***************************************************************************)
(* The progress document on disk and the in-memory ProgressData.           *)
(***************************************************************************)
NoFile == [kind |-> "absent"]

NullProgress ==
  [startedAt |-> "", lastUpdated |-> "", totalVideos |-> 0,
   completedVideos |-> 0, successfulVideos |-> <<>>, failedVideos |-> <<>>,
   currentBatch |-> 0, totalBatches |-> 0]

NotLoaded == [kind |-> "null"]

\* loadProgress that never finds the file.
loadProgressNull(f) == NotLoaded

\* A progress document that exists but is not JSON.
MalformedFile == [kind |-> "malformed"]

\* loadProgress whose catch hands back an empty record instead of null.
loadProgressCatchRecord(f) ==
  IF f.kind = "absent" THEN NotLoaded
  ELSE IF f.kind = "json" THEN [kind |-> "record", data |-> f.data]
  ELSE [kind |-> "record", data |-> NullProgress]

\* loadProgress(): null when the file does not exist or JSON.parse throws (the
\* catch logs a warning), else the parsed record.
loadProgress(f) ==
  IF f.kind = "absent" THEN NotLoaded
  ELSE IF f.kind = "json" THEN [kind |-> "record", data |-> f.data]
  ELSE NotLoaded

\* saveProgress(progress): the record it leaves in memory (lastUpdated refreshed).
saveProgressRecord(p) == [p EXCEPT !.lastUpdated = Now]

\* saveProgress(progress): the file it writes.
saveProgressFile(p) == [kind |-> "json", data |-> saveProgressRecord(p)]

FailedIds(p) == {p.failedVideos[k].videoId : k \in 1..Len(p.failedVideos)}

\* The processed set built from successfulVideos alone.
processedSuccessOnly(p) == Range(p.successfulVideos)

\* const processedVideoIds = new Set([...successfulVideos, ...failedVideos.map(f => f.videoId)])
processedVideoIds(p) == Range(p.successfulVideos) \cup FailedIds(p)

\* The filter with its negation lost: filter((id) => processedVideoIds.has(id)).
resolveRemainderInverted(all, p) ==
  LET keep(id) == id \in Range(p.successfulVideos) \cup FailedIds(p)
  IN  SelectSeq(all, keep)

\* allVideoIds.filter((id) => !processedVideoIds.has(id))
resolveRemainder(all, p) ==
  LET keep(id) == id \notin processedVideoIds(p) IN SelectSeq(all, keep)

\* totalBatches rounded down instead of up.
freshProgressFloor(all) ==
  [startedAt |-> Now, lastUpdated |-> Now, totalVideos |-> Len(all),
   completedVideos |-> 0, successfulVideos |-> <<>>, failedVideos |-> <<>>,
   currentBatch |-> 1, totalBatches |-> Len(all) \div BATCH_SIZE]

\* The fresh ProgressData of main's else branch.
freshProgress(all) ==
  [startedAt |-> Now, lastUpdated |-> Now, totalVideos |-> Len(all),
   completedVideos |-> 0, successfulVideos |-> <<>>, failedVideos |-> <<>>,
   currentBatch |-> 1, totalBatches |-> MathCeilDiv(Len(all), BATCH_SIZE)]

\* completedVideos++ moved into the success branch.
recordResultSuccessCounted(p, result) ==
  IF result.status = "fulfilled"
    THEN IF result.value.success
           THEN [p EXCEPT !.successfulVideos = Append(@, result.value.videoId),
                          !.completedVideos = @ + 1]
           ELSE [p EXCEPT !.failedVideos =
                            Append(@, [videoId |-> result.value.videoId,
                                       error |-> "Request failed",
                                       timestamp |-> Now])]
    ELSE p

\* completedVideos++ both inside the failure branch and after the if.
recordResultFailureTwice(p, result) ==
  IF result.status = "fulfilled"
    THEN IF result.value.success
           THEN [p EXCEPT !.successfulVideos = Append(@, result.value.videoId),
                          !.completedVideos = @ + 1]
           ELSE [p EXCEPT !.failedVideos =
                            Append(@, [videoId |-> result.value.videoId,
                                       error |-> "Request failed",
                                       timestamp |-> Now]),
                          !.completedVideos = @ + 2]
    ELSE p

\* The rejected branch counted as a completed video.
recordResultRejectedCounted(p, result) ==
  IF result.status = "fulfilled"
    THEN LET q == IF result.value.success
                    THEN [p EXCEPT !.successfulVideos =
                                     Append(@, result.value.videoId)]
                    ELSE [p EXCEPT !.failedVideos =
                                     Append(@, [videoId |-> result.value.videoId,
                                                error |-> "Request failed",
                                                timestamp |-> Now])]
         IN  [q EXCEPT !.completedVideos = @ + 1]
    ELSE [p EXCEPT !.completedVideos = @ + 1]

(***************************************************************************)
(* processBatch, lines 118-134: the loop over batchResults.                *)
(***************************************************************************)
recordResult(p, result) ==
  IF result.status = "fulfilled"
    THEN LET q == IF result.value.success
                    THEN [p EXCEPT !.successfulVideos =
                                     Append(@, result.value.videoId)]
                    ELSE [p EXCEPT !.failedVideos =
                                     Append(@, [videoId |-> result.value.videoId,
                                                error |-> "Request failed",
                                                timestamp |-> Now])]
         IN  [q EXCEPT !.completedVideos = @ + 1]
    ELSE p

RECURSIVE aggregate(_, _)
aggregate(p, results) ==
  IF Len(results) = 0 THEN p
  ELSE aggregate(recordResult(p, Head(results)), Tail(results))

\* completedVideos reset to the size of the batch just aggregated.
afterBatchRecount(p, results) ==
  saveProgressRecord([aggregate(p, results) EXCEPT
                        !.currentBatch = @ + 1,
                        !.completedVideos = Len(results)])

\* processBatch, lines 118-137: aggregate, currentBatch++, saveProgress.
afterBatch(p, results) ==
  saveProgressRecord([aggregate(p, results) EXCEPT !.currentBatch = @ + 1])

\* Promise.race in place of Promise.allSettled: one settled promise is enough.
anySettled(results) ==
  \E k \in 1..Len(results) : results[k].status # "pending"

\* await Promise.allSettled(...): resumes when no promise is pending.
allSettled(results) ==
  \A k \in 1..Len(results) : results[k].status # "pending"

VARIABLES
  inputKind,          \* the input document: ok, missing, unparseable, nochannel
  inputDoc,           \* the video IDs of the input document on disk
  file,               \* the progress document on disk
  pc,                 \* where the process is: idle, loop, await, delay, done
  allVideoIds,        \* main: allVideoIds
  loaded,             \* main: what loadProgress() returned
  progress,           \* main: progress
  remainingVideoIds,  \* main: remainingVideoIds
  i,                  \* main: the loop index
  videoIds,           \* processBatch: videoIds, the batch in flight
  batchResults,       \* processBatch: the promises of Promise.allSettled
  batches,            \* the batches this run has dispatched, in order
  delays,             \* how many 2 s waits this run has finished
  fetched,            \* <<k, what fetch() did>> per settled request (SpecRequest)
  report,             \* the closing console line of the last finished run
  reqBody,            \* Agent: the body of the request, req.data
  agentPc,            \* Agent: idle, json, validate, generate, responded
  jsonResult,         \* Agent: jsonResult
  parseResult,        \* Agent: parseResult
  stepIdx,            \* Agent: stepIdx
  ops,                \* Agent: the LLM, YouTube and KV operations performed
  response            \* Agent: what resp.json() was given

agentVars == <<reqBody, agentPc, jsonResult, parseResult, stepIdx, ops,
               response>>

vars == <<inputKind, inputDoc, file, pc, allVideoIds, loaded, progress,
          remainingVideoIds, i, videoIds, batchResults, batches, delays,
          fetched, report, reqBody, agentPc, jsonResult, parseResult, stepIdx,
          ops, response>>

NoBody == [kind |-> "none"]

NoResult == [kind |-> "none"]

NoResponse == [kind |-> "none"]

\* The comments-watcher agent has received no request.
AgentIdle ==
  /\ reqBody = NoBody
  /\ agentPc = "idle"
  /\ jsonResult = NoResult
  /\ parseResult = NoResult
  /\ stepIdx = 1
  /\ ops = {}
  /\ response = NoResponse

Init ==
  /\ \/ inputKind = "ok" /\ inputDoc \in InputLists
     \/ inputKind \in InputKinds \ {"ok"} /\ inputDoc = <<>>
  /\ file = NoFile
  /\ pc = "idle"
  /\ allVideoIds = <<>>
  /\ loaded = NotLoaded
  /\ progress = NullProgress
  /\ remainingVideoIds = <<>>
  /\ i = 0
  /\ videoIds = <<>>
  /\ batchResults = <<>>
  /\ batches = <<>>
  /\ delays = 0
  /\ fetched = {}
  /\ report = "none"
  /\ AgentIdle

(***************************************************************************)
(* main, lines 153-201: read the input, load or create the progress        *)
(* record, compute the remaining IDs, return at once when none remain.     *)
(***************************************************************************)
Start ==
  /\ pc \in {"idle", "done"}
  /\ getBenDavisVideoIds(inputKind, inputDoc).exit = 0
  /\ allVideoIds' = getBenDavisVideoIds(inputKind, inputDoc).videoIds
  /\ loaded' = loadProgress(file)
  /\ IF loaded'.kind = "record"
       THEN /\ progress' = loaded'.data
            /\ remainingVideoIds' = resolveRemainder(allVideoIds', loaded'.data)
            /\ file' = file
       ELSE /\ progress' = saveProgressRecord(freshProgress(allVideoIds'))
            /\ remainingVideoIds' = allVideoIds'
            /\ file' = saveProgressFile(freshProgress(allVideoIds'))
  /\ IF Len(remainingVideoIds') = 0
       THEN pc' = "done" /\ report' = "already processed"
       ELSE pc' = "loop" /\ report' = "none"
  /\ i' = 0
  /\ videoIds' = <<>>
  /\ batchResults' = <<>>
  /\ batches' = <<>>
  /\ delays' = 0
  /\ fetched' = {}
  /\ UNCHANGED <<inputKind, inputDoc>>
  /\ UNCHANGED agentVars

\* main, line 156: getBenDavisVideoIds() ends the process with exit code 1.
StartExit ==
  /\ pc = "idle"
  /\ getBenDavisVideoIds(inputKind, inputDoc).exit = 1
  /\ pc' = "exit1"
  /\ UNCHANGED <<inputKind, inputDoc, file, allVideoIds, loaded, progress,
                 remainingVideoIds, i, videoIds, batchResults, batches, delays,
                 fetched, report>>
  /\ UNCHANGED agentVars

\* Non-success outcomes recorded in the progress document or settled in flight.
FailedSoFar ==
  Len(progress.failedVideos)
    + Cardinality({k \in 1..Len(batchResults) :
                     /\ batchResults[k].status = "fulfilled"
                     /\ ~batchResults[k].value.success})

(***************************************************************************)
(* main, lines 204-206 and processBatch, lines 106-116: the for loop takes *)
(* the next slice and processBatch issues one request per ID of it.        *)
(***************************************************************************)
Dispatch ==
  /\ pc = "loop"
  /\ i < Len(remainingVideoIds)
  /\ videoIds' = nextBatch(remainingVideoIds, i)
  /\ batchResults' = [k \in 1..Len(videoIds') |-> Pending]
  /\ batches' = Append(batches, videoIds')
  /\ delays' = delays
  /\ pc' = "await"
  /\ UNCHANGED <<inputKind, inputDoc, file, allVideoIds, loaded, progress,
                 remainingVideoIds, i, fetched, report>>
  /\ UNCHANGED agentVars

\* The result stored in completion order: in the first slot still pending.
settleAtFirstFree(results, k, r) ==
  LET free == CHOOSE j \in 1..Len(results) :
                /\ results[j].status = "pending"
                /\ \A h \in 1..(j - 1) : results[h].status # "pending"
  IN  [results EXCEPT ![free] = r]

\* Promise.allSettled, lines 111-116: the result of the k-th promise is the
\* k-th element of batchResults, whenever it settles.
settleAt(results, k, r) == [results EXCEPT ![k] = r]

\* What the promises of one batch position can settle to.
Settlements(videoId) == {mapCallback(videoId, out) : out \in FetchOutcomes}

IsFailure(r) == r.status = "fulfilled" /\ ~r.value.success

\* One request of the batch in flight settles, in any order.
Settle ==
  /\ pc = "await"
  /\ \E k \in 1..Len(batchResults) :
       /\ batchResults[k].status = "pending"
       /\ \E r \in Settlements(videoIds[k]) :
            /\ IsFailure(r) => FailedSoFar < MaxFailed
            /\ batchResults' = settleAt(batchResults, k, r)
  /\ UNCHANGED <<inputKind, inputDoc, file, pc, allVideoIds, loaded, progress,
                 remainingVideoIds, i, videoIds, batches, delays, fetched,
                 report>>
  /\ UNCHANGED agentVars

(***************************************************************************)
(* processBatch, lines 118-150, once every promise has settled, and main,  *)
(* lines 207-212: back in the loop, wait 2 s when another batch follows.   *)
(***************************************************************************)
Aggregate ==
  /\ pc = "await"
  /\ allSettled(batchResults)
  /\ progress' = afterBatch(progress, batchResults)
  /\ file' = [kind |-> "json", data |-> progress']
  /\ pc' = IF moreBatches(remainingVideoIds, i) THEN "delay" ELSE "loop"
  /\ i' = IF moreBatches(remainingVideoIds, i) THEN i ELSE i + BATCH_SIZE
  /\ videoIds' = <<>>
  /\ batchResults' = <<>>
  /\ fetched' = {}
  /\ UNCHANGED <<inputKind, inputDoc, allVideoIds, loaded, remainingVideoIds,
                 batches, delays, report>>
  /\ UNCHANGED agentVars

\* main, line 211 and the loop's i += BATCH_SIZE: the 2 s timer fires.
Delay ==
  /\ pc = "delay"
  /\ i' = i + BATCH_SIZE
  /\ pc' = "loop"
  /\ delays' = delays + 1
  /\ UNCHANGED <<inputKind, inputDoc, file, allVideoIds, loaded, progress,
                 remainingVideoIds, videoIds, batchResults, batches, fetched,
                 report>>
  /\ UNCHANGED agentVars

\* main, lines 204 and 215-229: the loop condition fails, the tally is printed.
Finish ==
  /\ pc = "loop"
  /\ ~(i < Len(remainingVideoIds))
  /\ pc' = "done"
  /\ report' = "all batches completed"
  /\ UNCHANGED <<inputKind, inputDoc, file, allVideoIds, loaded, progress,
                 remainingVideoIds, i, videoIds, batchResults, batches, delays,
                 fetched>>
  /\ UNCHANGED agentVars

\* The process is killed while it runs: memory is lost, the files stay.
Crash ==
  /\ pc \in {"loop", "await", "delay"}
  /\ pc' = "idle"
  /\ allVideoIds' = <<>>
  /\ loaded' = NotLoaded
  /\ progress' = NullProgress
  /\ remainingVideoIds' = <<>>
  /\ i' = 0
  /\ videoIds' = <<>>
  /\ batchResults' = <<>>
  /\ batches' = <<>>
  /\ delays' = 0
  /\ fetched' = {}
  /\ report' = "none"
  /\ UNCHANGED <<inputKind, inputDoc, file>>
  /\ UNCHANGED agentVars

\* Between two runs the operator deletes the progress document.
DiscardProgress ==
  /\ pc \in {"idle", "done"}
  /\ file # NoFile
  /\ file' = NoFile
  /\ UNCHANGED <<inputKind, inputDoc, pc, allVideoIds, loaded, progress,
                 remainingVideoIds, i, videoIds, batchResults, batches, delays,
                 fetched, report>>
  /\ UNCHANGED agentVars

Next ==
  \/ Start \/ StartExit \/ Dispatch \/ Settle \/ Aggregate \/ Delay \/ Finish
  \/ Crash \/ DiscardProgress

Spec == Init /\ [][Next]_vars

(***************************************************************************)
(* SpecRequest: short runs in which every settled request keeps what       *)
(* fetch() did for it, to compare makeCommentRequest's result with it.     *)
(***************************************************************************)
MaxTraced == 3

InitRequest ==
  /\ Init
  /\ inputKind = "ok"
  /\ Len(inputDoc) \in 1..MaxTraced

SettleTraced ==
  /\ pc = "await"
  /\ \E k \in 1..Len(batchResults) :
       /\ batchResults[k].status = "pending"
       /\ \E out \in FetchOutcomes :
            /\ batchResults' =
                 settleAt(batchResults, k, mapCallback(videoIds[k], out))
            /\ fetched' = fetched \cup {<<k, out>>}
  /\ UNCHANGED <<inputKind, inputDoc, file, pc, allVideoIds, loaded, progress,
                 remainingVideoIds, i, videoIds, batches, delays, report>>
  /\ UNCHANGED agentVars

NextRequest == Start \/ Dispatch \/ SettleTraced \/ Aggregate \/ Finish

SpecRequest == InitRequest /\ [][NextRequest]_vars

(***************************************************************************)
(* SpecResume: run() started on a progress document that an earlier,       *)
(* finished run over an earlier input document left behind.  The earlier   *)
(* run succeeded on the IDs S and failed on the IDs F.                     *)
(***************************************************************************)
MaxPrior == 7

SortedSeq(S) ==
  [k \in 1..Cardinality(S) |->
     CHOOSE x \in S : Cardinality({y \in S : y < x}) = k - 1]

priorRecord(S, F) ==
  LET n == Cardinality(S) + Cardinality(F)
      failure(id) == [videoId |-> id, error |-> "Request failed",
                      timestamp |-> Now]
  IN  [startedAt |-> Now, lastUpdated |-> Now, totalVideos |-> n,
       completedVideos |-> n,
       successfulVideos |-> SortedSeq(S),
       failedVideos |-> [k \in 1..Cardinality(F) |-> failure(SortedSeq(F)[k])],
       currentBatch |-> MathCeilDiv(n, BATCH_SIZE) + 1,
       totalBatches |-> MathCeilDiv(n, BATCH_SIZE)]

PriorRecords ==
  {priorRecord(S, F) :
     <<S, F>> \in {sf \in (SUBSET (1..MaxPrior)) \X (SUBSET (1..MaxPrior)) :
                     /\ sf[1] \cap sf[2] = {}
                     /\ Cardinality(sf[2]) <= MaxFailed}}

InitResume ==
  /\ inputKind = "ok"
  /\ inputDoc \in InputLists
  /\ file \in {[kind |-> "json", data |-> r] : r \in PriorRecords}
  /\ pc = "idle"
  /\ allVideoIds = <<>>
  /\ loaded = NotLoaded
  /\ progress = NullProgress
  /\ remainingVideoIds = <<>>
  /\ i = 0
  /\ videoIds = <<>>
  /\ batchResults = <<>>
  /\ batches = <<>>
  /\ delays = 0
  /\ fetched = {}
  /\ report = "none"
  /\ AgentIdle

NextResume == Start \/ Dispatch

SpecResume == InitResume /\ [][NextResume]_vars

(***************************************************************************)
(* Steps of a run, as seen from outside.                                   *)
(***************************************************************************)
DispatchStep == pc = "loop" /\ pc' = "await"

AggregateStep == pc = "await" /\ pc' \in {"delay", "loop"}

RECURSIVE Flatten(_)
Flatten(ss) == IF Len(ss) = 0 THEN <<>> ELSE Head(ss) \o Flatten(Tail(ss))

NoRepeat(s) == \A a, b \in 1..Len(s) : s[a] = s[b] => a = b

FailedSeq(p) == [k \in 1..Len(p.failedVideos) |-> p.failedVideos[k].videoId]

Accounted(p) ==
  p.completedVideos = Len(p.successfulVideos) + Len(p.failedVideos)

(***************************************************************************)
(* C1. No duplicate attempts: once a video ID is in successfulVideos of    *)
(* the progress document, no run dispatches a request for it again,        *)
(* neither the run that recorded it nor a later run that loads the         *)
(* document.                                                               *)
(***************************************************************************)
C1_NoDuplicateAttempts ==
  [][DispatchStep /\ file.kind = "json"
       => \A k \in 1..Len(videoIds') :
            videoIds'[k] \notin Range(file.data.successfulVideos)]_vars

(***************************************************************************)
(* C2. Within one run every work item is dispatched at most once, and at   *)
(* every point of the run the IDs of successfulVideos together with the    *)
(* videoIds of failedVideos contain no ID twice.                           *)
(***************************************************************************)
C2_AttemptedOncePerRun ==
  /\ NoRepeat(Flatten(batches))
  /\ NoRepeat(progress.successfulVideos \o FailedSeq(progress))

(***************************************************************************)
(* C3. After every completed processBatch, and in every persisted progress *)
(* record, completedVideos = |successfulVideos| + |failedVideos|.          *)
(***************************************************************************)
C3_CompletedIsSuccessPlusFailed ==
  /\ pc \in {"loop", "delay", "done"} => Accounted(progress)
  /\ file.kind = "json" => Accounted(file.data)

C3_Witness ==
  /\ pc = "delay"
  /\ Len(progress.successfulVideos) > 0
  /\ Len(progress.failedVideos) > 0
  /\ file.data = progress

(***************************************************************************)
(* C4. Idempotent resume: run() started on a persisted progress record     *)
(* whose successfulVideos and failed videoIds cover the whole input list   *)
(* dispatches nothing, processes no batch, reports completion and returns, *)
(* and leaves the progress document as it was.                             *)
(***************************************************************************)
Covers(all, p) ==
  \A j \in 1..Len(all) :
    \/ \E k \in 1..Len(p.successfulVideos) : p.successfulVideos[k] = all[j]
    \/ \E k \in 1..Len(p.failedVideos) : p.failedVideos[k].videoId = all[j]

C4_IdempotentResume ==
  [][Start /\ file.kind = "json" /\ Covers(inputDoc, file.data)
       => /\ pc' = "done"
          /\ report' = "already processed"
          /\ file' = file
          /\ batches' = <<>>
          /\ batchResults' = <<>>]_vars

C4_Witness ==
  /\ pc = "done"
  /\ report = "already processed"
  /\ loaded.kind = "record"
  /\ Len(allVideoIds) > BATCH_SIZE
  /\ Len(loaded.data.failedVideos) > 0
  /\ file.data = loaded.data

(***************************************************************************)
(* C5. An item whose dispatch failed in an earlier run (its ID is in       *)
(* failedVideos of the loaded progress record) is not dispatched by a      *)
(* later run.                                                              *)
(***************************************************************************)
C5_LoadedFailuresNotRetried ==
  [][DispatchStep /\ loaded.kind = "record"
       => \A k \in 1..Len(videoIds') :
            \A f \in 1..Len(loaded.data.failedVideos) :
              loaded.data.failedVideos[f].videoId # videoIds'[k]]_vars

C5_Witness ==
  /\ pc = "await"
  /\ loaded.kind = "record"
  /\ Len(loaded.data.failedVideos) > 0

(***************************************************************************)
(* C6. resolveRemainder(all, progress) is exactly the items of the input   *)
(* list, in input order, whose ID is in neither successfulVideos nor the   *)
(* failed videoIds, and the resumed run dispatches only those.             *)
(***************************************************************************)
Unattempted(all, p) ==
  {j \in 1..Len(all) :
     /\ \A k \in 1..Len(p.successfulVideos) : p.successfulVideos[k] # all[j]
     /\ \A k \in 1..Len(p.failedVideos) : p.failedVideos[k].videoId # all[j]}

NthOf(J, k) == CHOOSE j \in J : Cardinality({m \in J : m < j}) = k - 1

C6_RemainderIsUnattemptedInOrder ==
  (pc # "idle" /\ loaded.kind = "record") =>
    LET U == Unattempted(allVideoIds, loaded.data)
    IN  /\ Len(remainingVideoIds) = Cardinality(U)
        /\ \A k \in 1..Len(remainingVideoIds) :
             remainingVideoIds[k] = allVideoIds[NthOf(U, k)]
        /\ \A k \in 1..Len(videoIds) :
             \E j \in U : videoIds[k] = allVideoIds[j]
        /\ pc = "await" => Len(videoIds) > 0

C6_Witness ==
  /\ pc = "await"
  /\ Len(allVideoIds) = 12
  /\ Len(loaded.data.successfulVideos) = 5
  /\ Len(loaded.data.failedVideos) = 2
  /\ loaded.data.failedVideos[1].videoId = 2
  /\ Len(videoIds) = 5
  /\ videoIds = remainingVideoIds

(***************************************************************************)
(* C7. Partition coverage: for N remaining items and batch size B the loop *)
(* of run() produces ceil(N/B) batches, each of 1..B items, whose sizes    *)
(* sum to N and whose concatenation in processing order is the             *)
(* remaining-items list.                                                   *)
(***************************************************************************)
RECURSIVE SumLen(_)
SumLen(ss) == IF Len(ss) = 0 THEN 0 ELSE Len(Head(ss)) + SumLen(Tail(ss))

C7_PartitionCoverage ==
  pc = "done" =>
    LET N == Len(remainingVideoIds)
        B == BATCH_SIZE
    IN  /\ (Len(batches) - 1) * B < N
        /\ N <= Len(batches) * B
        /\ \A b \in 1..Len(batches) :
             Len(batches[b]) >= 1 /\ Len(batches[b]) <= B
        /\ SumLen(batches) = N
        /\ Flatten(batches) = remainingVideoIds

C7_Witness ==
  /\ pc = "done"
  /\ report = "all batches completed"
  /\ Len(batches) = 2
  /\ Len(batches[1]) = BATCH_SIZE
  /\ Len(batches[2]) = 2

(***************************************************************************)
(* C8. Completion accounting: one processBatch call increases              *)
(* completedVideos by exactly the number of items of the batch that        *)
(* produced a determinate outcome (success or failure).                    *)
(***************************************************************************)
C8_CompletionAccounting ==
  [][AggregateStep
       => progress'.completedVideos =
            progress.completedVideos
              + Cardinality({k \in 1..Len(batchResults) :
                               batchResults[k].status = "fulfilled"})]_vars

C8_Witness ==
  /\ pc = "loop"
  /\ i >= Len(remainingVideoIds)
  /\ Len(batches) = 2
  /\ progress.completedVideos = 11
  /\ Len(progress.failedVideos) = 1

(***************************************************************************)
(* C9. makeCommentRequest never throws or rejects: it returns success      *)
(* exactly when fetch resolved with a 2xx status, and failure for every    *)
(* other status and for every transport error.                             *)
(***************************************************************************)
C9_DispatchNeverRejects ==
  \A t \in fetched :
    LET k == t[1]
        out == t[2]
    IN  /\ batchResults[k].status = "fulfilled"
        /\ batchResults[k].value.success =
             (out.kind = "response" /\ out.status \in 200..299)

C9_Witness ==
  /\ \E t \in fetched : t[2].kind = "error" /\ ~batchResults[t[1]].value.success
  /\ \E t \in fetched : t[2].status = 500 /\ ~batchResults[t[1]].value.success
  /\ \E t \in fetched : t[2].status = 204

(***************************************************************************)
(* C10. When the dispatch of item X ends in failure, after that batch X is *)
(* in failedVideos with a non-empty error string and a timestamp, X is     *)
(* not in successfulVideos, and completedVideos has been incremented.      *)
(***************************************************************************)
C10_FailureRecorded ==
  [][AggregateStep
       => \A k \in 1..Len(batchResults) :
            IsFailure(batchResults[k]) =>
              LET X == batchResults[k].value.videoId
              IN  /\ \E f \in 1..Len(progress'.failedVideos) :
                       /\ progress'.failedVideos[f].videoId = X
                       /\ progress'.failedVideos[f].error # ""
                       /\ progress'.failedVideos[f].timestamp # ""
                  /\ X \notin Range(progress'.successfulVideos)
                  /\ progress'.completedVideos > progress.completedVideos]_vars

(***************************************************************************)
(* C11. Settle-all barrier: processBatch dispatches all items of the batch *)
(* together, and while any dispatch of the batch is unsettled no field of  *)
(* the progress record changes and nothing is persisted; a settling        *)
(* dispatch does not touch the progress record.                            *)
(***************************************************************************)
SomePending ==
  \E k \in 1..Len(batchResults) : batchResults[k].status = "pending"

C11_SettleAllBarrier ==
  [][/\ DispatchStep =>
          /\ Len(batchResults') = Len(videoIds')
          /\ \A k \in 1..Len(batchResults') :
               batchResults'[k].status = "pending"
     /\ (pc = "await" /\ SomePending) =>
          /\ file' = file
          /\ pc' # "idle" => progress' = progress /\ pc' = "await"
     /\ (pc = "await" /\ batchResults' # batchResults /\ pc' = "await") =>
          progress' = progress /\ file' = file]_vars

C11_Witness ==
  /\ pc = "await"
  /\ Len(videoIds) = BATCH_SIZE
  /\ SomePending
  /\ \E k \in 1..Len(batchResults) : IsFailure(batchResults[k])
  /\ \E k \in 1..Len(batchResults) :
       batchResults[k].status = "fulfilled" /\ batchResults[k].value.success
  /\ progress.completedVideos = 0
  /\ file.data = progress

(***************************************************************************)
(* C12. Batches never overlap: no item of batch k+1 is dispatched before   *)
(* every dispatch of batch k has settled and batch k's progress has been   *)
(* persisted; a fixed delay separates every two consecutive batches and    *)
(* none follows the last batch.                                            *)
(***************************************************************************)
C12_BatchesSequentialWithDelay ==
  /\ [][DispatchStep =>
          /\ batchResults = <<>>
          /\ file.kind = "json" /\ file.data = progress
          /\ progress.completedVideos
               >= (IF loaded.kind = "record"
                     THEN loaded.data.completedVideos ELSE 0)
                    + SumLen(batches)
          /\ delays = Len(batches)]_vars
  /\ [](pc = "done" /\ Len(batches) > 0 => delays = Len(batches) - 1)

C12_Witness ==
  /\ pc = "await"
  /\ Len(batches) = 2
  /\ delays = 1
  /\ progress.completedVideos = BATCH_SIZE
  /\ file.data = progress

(***************************************************************************)
(* C13. The progress document is written only when a fresh record is       *)
(* initialised and at the end of a processBatch whose outcomes are all     *)
(* aggregated, so at every moment, also after a crash, the persisted       *)
(* record holds the outcomes of whole batches only.                        *)
(***************************************************************************)
Recorded(p) == Len(p.successfulVideos) + Len(p.failedVideos)

C13_PersistedWholeBatchesOnly ==
  /\ [][file' # file =>
          \/ /\ pc \in {"idle", "done"}
             /\ file.kind # "json"
             /\ file'.kind = "json"
             /\ Recorded(file'.data) = 0
          \/ /\ AggregateStep
             /\ ~SomePending
             /\ file.kind = "json" /\ file'.kind = "json"
             /\ file'.data = progress'
             /\ Recorded(file'.data) = Recorded(file.data) + Len(videoIds)
          \/ /\ pc \in {"idle", "done"}
             /\ file' = NoFile]_vars
  /\ [](pc \in {"loop", "await", "delay"} =>
          /\ file.kind = "json"
          /\ Recorded(file.data) =
               (IF loaded.kind = "record" THEN Recorded(loaded.data) ELSE 0)
                 + SumLen(batches)
                 - (IF pc = "await" THEN Len(videoIds) ELSE 0))

C13_Witness ==
  /\ pc = "await"
  /\ Len(batches) = 2
  /\ ~SomePending
  /\ \E k \in 1..Len(batchResults) : IsFailure(batchResults[k])
  /\ Recorded(file.data) = BATCH_SIZE
  /\ Recorded(progress) = BATCH_SIZE

(***************************************************************************)
(* C14. A run that finds no persisted progress record creates one with     *)
(* completedVideos = 0, empty successfulVideos and failedVideos,           *)
(* currentBatch = 1, totalVideos = the number of input IDs and             *)
(* totalBatches = ceil(totalVideos / BATCH_SIZE), and persists it before   *)
(* the first dispatch of the run.                                          *)
(***************************************************************************)
StartFreshStep ==
  /\ pc \in {"idle", "done"}
  /\ pc' \in {"loop", "done"}
  /\ file.kind # "json"
  /\ file' # file

IsFreshRecord(p, n) ==
  /\ p.completedVideos = 0
  /\ p.successfulVideos = <<>>
  /\ p.failedVideos = <<>>
  /\ p.currentBatch = 1
  /\ p.totalVideos = n
  /\ (p.totalBatches - 1) * BATCH_SIZE < n
  /\ n <= p.totalBatches * BATCH_SIZE

C14_FreshRecordPersistedBeforeDispatch ==
  [][/\ StartFreshStep => /\ file'.kind = "json"
                          /\ IsFreshRecord(file'.data, Len(inputDoc))
                          /\ progress' = file'.data
                          /\ batches' = <<>>
     /\ (pc \in {"idle", "done"} /\ pc' = "loop" /\ file.kind # "json") =>
          StartFreshStep
     /\ DispatchStep => /\ file.kind = "json"
                        /\ (loaded.kind = "null" /\ batches = <<>>) =>
                             IsFreshRecord(file.data, Len(inputDoc))]_vars

C14_Witness ==
  /\ pc = "await"
  /\ loaded.kind = "null"
  /\ Len(batches) = 1
  /\ Len(inputDoc) = BATCH_SIZE + 1
  /\ IsFreshRecord(file.data, BATCH_SIZE + 1)
  /\ file.data.totalBatches = 2

(***************************************************************************)
(* C15. A fresh run over N IDs with no prior progress processes            *)
(* ceil(N / BATCH_SIZE) batches in input order (for N = 12: a batch of 10  *)
(* then a batch of 2, totalBatches = 2), persists the progress record      *)
(* after each batch, and ends with completedVideos = N.                    *)
(***************************************************************************)
FreshRun == loaded.kind = "null" /\ pc \in {"loop", "await", "delay", "done"}

C15_FreshRunBatches ==
  /\ (FreshRun /\ pc = "done") =>
       /\ Flatten(batches) = allVideoIds
       /\ \A k \in 1..Len(batches) :
            IF k < Len(batches) THEN Len(batches[k]) = BATCH_SIZE
                                ELSE Len(batches[k]) \in 1..BATCH_SIZE
       /\ progress.totalBatches = Len(batches)
       /\ progress.totalVideos = Len(allVideoIds)
       /\ progress.completedVideos = Len(allVideoIds)
       /\ file.kind = "json" => file.data = progress
  /\ (FreshRun /\ pc \in {"loop", "delay"}) =>
       /\ file.kind = "json"
       /\ file.data = progress
       /\ progress.completedVideos = SumLen(batches)
       /\ progress.currentBatch = Len(batches) + 1

C15_Witness ==
  /\ FreshRun
  /\ pc = "done"
  /\ Len(allVideoIds) = 12
  /\ NoRepeat(allVideoIds)
  /\ Len(batches) = 2
  /\ Len(batches[1]) = 10
  /\ Len(batches[2]) = 2
  /\ progress.totalBatches = 2
  /\ progress.completedVideos = 12
  /\ file.kind = "json"

(***************************************************************************)
(* Runs that start on a progress document that exists but cannot be        *)
(* parsed (loadProgress, lines 68-74), with no crash between the steps.    *)
(***************************************************************************)
InitMalformed ==
  /\ inputKind = "ok"
  /\ inputDoc \in InputLists
  /\ file = MalformedFile
  /\ pc = "idle"
  /\ allVideoIds = <<>>
  /\ loaded = NotLoaded
  /\ progress = NullProgress
  /\ remainingVideoIds = <<>>
  /\ i = 0
  /\ videoIds = <<>>
  /\ batchResults = <<>>
  /\ batches = <<>>
  /\ delays = 0
  /\ fetched = {}
  /\ report = "none"
  /\ AgentIdle

NextMalformed == Start \/ Dispatch \/ Settle \/ Aggregate \/ Delay \/ Finish

SpecMalformed == InitMalformed /\ [][NextMalformed]_vars

(***************************************************************************)
(* C16. As stated: a progress document that exists but cannot be parsed is *)
(* fatal at startup, the run aborts before any batch is dispatched and     *)
(* does not overwrite the progress document.                               *)
(***************************************************************************)
C16_MalformedProgressFatal ==
  [][file.kind = "malformed" => file'.kind # "json" /\ pc' # "loop"]_vars

(***************************************************************************)
(* C16, amended. A progress document that exists but cannot be parsed is   *)
(* treated like an absent one: the run starts fresh, overwrites the        *)
(* document with a fresh record over the whole input list, and dispatches  *)
(* its batches from the first input ID.                                    *)
(***************************************************************************)
C16_MalformedProgressStartsFresh ==
  /\ [][file.kind = "malformed" =>
          /\ file'.kind = "json"
          /\ IsFreshRecord(file'.data, Len(inputDoc))
          /\ loaded' = NotLoaded
          /\ remainingVideoIds' = inputDoc
          /\ pc' = (IF Len(inputDoc) = 0 THEN "done" ELSE "loop")]_vars
  /\ [](pc = "await" /\ Len(batches) = 1 /\ loaded.kind = "null" =>
          videoIds = Slice(inputDoc, 0, BATCH_SIZE))

C16_Witness ==
  /\ pc = "await"
  /\ loaded.kind = "null"
  /\ Len(batches) = 1
  /\ Len(videoIds) = BATCH_SIZE
  /\ file.kind = "json"
  /\ IsFreshRecord(file.data, Len(inputDoc))

(***************************************************************************)
(* Startups over every kind of input document and every kind of progress   *)
(* document: main, lines 153-201, up to the first step of the loop.        *)
(***************************************************************************)
InitStartup ==
  /\ \/ inputKind = "ok" /\ inputDoc \in InputLists
     \/ inputKind \in InputKinds \ {"ok"} /\ inputDoc = <<>>
  /\ file \in {NoFile, MalformedFile}
                \cup {[kind |-> "json", data |-> r] : r \in PriorRecords}
  /\ pc = "idle"
  /\ allVideoIds = <<>>
  /\ loaded = NotLoaded
  /\ progress = NullProgress
  /\ remainingVideoIds = <<>>
  /\ i = 0
  /\ videoIds = <<>>
  /\ batchResults = <<>>
  /\ batches = <<>>
  /\ delays = 0
  /\ fetched = {}
  /\ report = "none"
  /\ AgentIdle

NextStartup == Start \/ StartExit \/ Dispatch

SpecStartup == InitStartup /\ [][NextStartup]_vars

(***************************************************************************)
(* C17. When the input ID document is missing, cannot be parsed or lacks   *)
(* the selected channel group, the process terminates with a non-zero exit *)
(* before the progress document is read or written and before any         *)
(* dispatch is issued.                                                     *)
(***************************************************************************)
C17_BadInputExitsBeforeProgress ==
  /\ [][(inputKind # "ok" /\ pc = "idle") =>
          /\ pc' = "exit1"
          /\ file' = file
          /\ loaded' = loaded
          /\ progress' = progress
          /\ batches' = batches
          /\ batchResults' = batchResults]_vars
  /\ [](inputKind # "ok" => /\ pc \in {"idle", "exit1"}
                            /\ loaded = NotLoaded
                            /\ progress = NullProgress
                            /\ batches = <<>>)

C17_Witness ==
  /\ pc = "exit1"
  /\ inputKind = "nochannel"
  /\ file.kind = "json"
  /\ file.data.completedVideos > 0
  /\ loaded = NotLoaded

(***************************************************************************)
(* Runs that are not interrupted, fresh or resumed after one recorded ID:  *)
(* every promise in flight settles (makeCommentRequest returns or fetch    *)
(* times out), the event loop runs each continuation of main that is       *)
(* ready, and the 2 s timer of line 211 fires.                             *)
(***************************************************************************)
LiveLists == {Ids(n) : n \in {0, 1, BATCH_SIZE, BATCH_SIZE + 2}}

InitLive ==
  /\ inputKind = "ok"
  /\ inputDoc \in LiveLists
  /\ file \in {NoFile, [kind |-> "json", data |-> priorRecord({2}, {})]}
  /\ pc = "idle"
  /\ allVideoIds = <<>>
  /\ loaded = NotLoaded
  /\ progress = NullProgress
  /\ remainingVideoIds = <<>>
  /\ i = 0
  /\ videoIds = <<>>
  /\ batchResults = <<>>
  /\ batches = <<>>
  /\ delays = 0
  /\ fetched = {}
  /\ report = "none"
  /\ AgentIdle

NextLive == Start \/ Dispatch \/ Settle \/ Aggregate \/ Delay \/ Finish

SpecLive ==
  /\ InitLive
  /\ [][NextLive]_vars
  /\ WF_vars(Dispatch)
  /\ WF_vars(Settle)
  /\ WF_vars(Aggregate)
  /\ WF_vars(Delay)
  /\ WF_vars(Finish)

(***************************************************************************)
(* C18. Dispatch failures are never fatal to the run: when every dispatch  *)
(* eventually settles, the run terminates after processing every batch,    *)
(* whatever the mix of successes and failures; at termination every item   *)
(* of the remaining-items list has been dispatched and is recorded in      *)
(* successfulVideos or failedVideos; and a failure of one item neither     *)
(* cancels nor prevents the dispatch of another item.                      *)
(***************************************************************************)
RecordedIds(p) == Range(p.successfulVideos) \cup Range(FailedSeq(p))

C18_FailuresNeverFatal ==
  /\ (pc \in {"loop", "await", "delay"}) ~> (pc = "done")
  /\ [](pc = "done" => /\ Flatten(batches) = remainingVideoIds
                       /\ Range(remainingVideoIds) \subseteq RecordedIds(progress))
  /\ [](pc = "await" => /\ Len(batchResults) = Len(videoIds)
                        /\ videoIds = Slice(remainingVideoIds, i, i + BATCH_SIZE))
  /\ [][(pc = "await" /\ pc' = "await") =>
          /\ videoIds' = videoIds
          /\ \A k \in 1..Len(batchResults) :
               batchResults[k].status # "pending" =>
                 batchResults'[k] = batchResults[k]]_vars

C18_Witness ==
  /\ pc = "done"
  /\ report = "all batches completed"
  /\ Len(batches) = 2
  /\ \E a, b \in 1..Len(progress.failedVideos) :
       /\ progress.failedVideos[a].videoId \in Range(batches[1])
       /\ progress.failedVideos[b].videoId \in Range(batches[2])
  /\ Len(progress.successfulVideos) >= BATCH_SIZE - 1
  /\ Range(remainingVideoIds) \subseteq RecordedIds(progress)

(***************************************************************************)
(* C19. Across every step of a run, and across resumed runs on the same    *)
(* progress document, totalVideos never changes after the record is        *)
(* created and completedVideos never decreases.                            *)
(***************************************************************************)
SameTotalAndGrowing(p, q) ==
  /\ q.totalVideos = p.totalVideos
  /\ q.completedVideos >= p.completedVideos

C19_TotalFixedCompletedMonotone ==
  [][/\ (file.kind = "json" /\ file'.kind = "json") =>
          SameTotalAndGrowing(file.data, file'.data)
     /\ (pc \in {"loop", "await", "delay"} /\ pc' # "idle") =>
          SameTotalAndGrowing(progress, progress')
     /\ (pc \in {"idle", "done"} /\ pc' \in {"loop", "done"}
           /\ file.kind = "json" /\ file'.kind = "json") =>
          SameTotalAndGrowing(file.data, progress')]_vars

C19_Witness ==
  /\ pc = "done"
  /\ loaded.kind = "record"
  /\ loaded.data.completedVideos = BATCH_SIZE
  /\ loaded.data.totalVideos = BATCH_SIZE + 2
  /\ progress.completedVideos = BATCH_SIZE + 2
  /\ progress.totalVideos = BATCH_SIZE + 2
  /\ file.kind = "json"
  /\ file.data = progress

(***************************************************************************)
(* C20. At every point of every run, fresh or resumed, each ID in          *)
(* successfulVideos and each videoId in failedVideos is a member of the    *)
(* full input ID list that the run read at startup.                        *)
(***************************************************************************)
C20_RecordedIdsInInput ==
  pc \in {"loop", "await", "delay", "done"} =>
    /\ RecordedIds(progress) \subseteq Range(allVideoIds)
    /\ file.kind = "json" => RecordedIds(file.data) \subseteq Range(allVideoIds)

(***************************************************************************)
(* SpecRejected: runs in which a promise of the batch can reject.  The     *)
(* callback of lines 112-115 rejects only when something throws outside    *)
(* the try block of makeCommentRequest (line 37); Promise.allSettled then  *)
(* reports status "rejected" and processBatch takes the else branch of     *)
(* lines 131-133.  Input lists are duplicate-free.                         *)
(***************************************************************************)
MaxRejected == 1

RejectedLists == {Ids(n) : n \in {1, 2, BATCH_SIZE + 2}}

InitRejected ==
  /\ inputKind = "ok"
  /\ inputDoc \in RejectedLists
  /\ file = NoFile
  /\ pc = "idle"
  /\ allVideoIds = <<>>
  /\ loaded = NotLoaded
  /\ progress = NullProgress
  /\ remainingVideoIds = <<>>
  /\ i = 0
  /\ videoIds = <<>>
  /\ batchResults = <<>>
  /\ batches = <<>>
  /\ delays = 0
  /\ fetched = {}
  /\ report = "none"
  /\ AgentIdle

RejectedAt(results) ==
  {k \in 1..Len(results) : results[k].status = "rejected"}

FulfilledAt(results) ==
  {k \in 1..Len(results) : results[k].status = "fulfilled"}

\* IDs this run dispatched in a finished batch and did not record.
SkippedIds ==
  LET finished == IF pc = "await" THEN SubSeq(batches, 1, Len(batches) - 1)
                                  ELSE batches
  IN  Range(Flatten(finished)) \ RecordedIds(progress)

\* One promise of the batch in flight rejects.  Every batch that skips an item
\* is followed by another run and another currentBatch++, so the guard caps
\* currentBatch.
SettleRejected ==
  /\ pc = "await"
  /\ progress.currentBatch < progress.totalBatches + MaxRejected
  /\ Cardinality(RejectedAt(batchResults)) + Cardinality(SkippedIds) < MaxRejected
  /\ \E k \in 1..Len(batchResults) :
       /\ batchResults[k].status = "pending"
       /\ batchResults' = settleAt(batchResults, k, [status |-> "rejected"])
  /\ UNCHANGED <<inputKind, inputDoc, file, pc, allVideoIds, loaded, progress,
                 remainingVideoIds, i, videoIds, batches, delays, fetched,
                 report>>
  /\ UNCHANGED agentVars

NextRejected ==
  \/ Start \/ Dispatch \/ Settle \/ SettleRejected \/ Aggregate \/ Delay
  \/ Finish

SpecRejected == InitRejected /\ [][NextRejected]_vars

C22_BatchCounterInRange ==
  /\ [][DispatchStep => /\ 1 <= progress.currentBatch
                        /\ progress.currentBatch <= progress.totalBatches]_vars
  /\ []((pc \in {"loop", "await", "delay", "done"}
           /\ progress.currentBatch > progress.totalBatches) =>
          /\ pc \in {"loop", "done"}
          /\ Flatten(batches) = remainingVideoIds)

C22_Witness ==
  /\ pc = "await"
  /\ loaded.kind = "record"
  /\ loaded.data.completedVideos = BATCH_SIZE
  /\ progress.currentBatch = 2
  /\ progress.totalBatches = 2
  /\ Len(batches) = 1

(***************************************************************************)
(* C23. The progress record after a batch does not depend on the order in  *)
(* which the concurrent dispatches of the batch settle: for the same       *)
(* per-item outcomes, successfulVideos and failedVideos are extended in    *)
(* the batch's input order under every interleaving of completions.        *)
(***************************************************************************)
InInputOrder(ids, results, succeeded) ==
  LET positions == [k \in 1..Len(ids) |-> k]
      chosen(k) == /\ results[k].status = "fulfilled"
                   /\ results[k].value.success = succeeded
      sel == SelectSeq(positions, chosen)
  IN  [j \in 1..Len(sel) |-> ids[sel[j]]]

C23_RecordIndependentOfSettleOrder ==
  /\ [](pc = "await" =>
          \A k \in 1..Len(batchResults) :
            batchResults[k].status = "fulfilled" =>
              batchResults[k].value.videoId = videoIds[k])
  /\ [][AggregateStep =>
          /\ progress'.successfulVideos =
               progress.successfulVideos \o InInputOrder(videoIds, batchResults, TRUE)
          /\ FailedSeq(progress') =
               FailedSeq(progress) \o InInputOrder(videoIds, batchResults, FALSE)]_vars

C23_Witness ==
  /\ pc = "await"
  /\ Len(videoIds) = BATCH_SIZE
  /\ batchResults[1].status = "pending"
  /\ batchResults[2].status = "fulfilled" /\ batchResults[2].value.success
  /\ batchResults[3].status = "pending"
  /\ IsFailure(batchResults[BATCH_SIZE])

(***************************************************************************)
(* The comments-watcher agent, src/unnamed/part_001: the handler Agent     *)
(* (lines 281-364) serving one request.                                    *)
(***************************************************************************)
STEP_LIMIT == 10

runVars == <<inputKind, inputDoc, file, pc, allVideoIds, loaded, progress,
             remainingVideoIds, i, videoIds, batchResults, batches, delays,
             fetched, report>>

\* What the videoId property of a JSON object can be.
VideoIdFields ==
  {[type |-> "absent"], [type |-> "null"], [type |-> "number"],
   [type |-> "string", text |-> ""], [type |-> "string", text |-> "abc"]}

\* The JSON values a request body can parse to.
JsonValues ==
  {[type |-> "null"], [type |-> "number"], [type |-> "string"],
   [type |-> "array"]}
    \cup {[type |-> "object", videoId |-> f] : f \in VideoIdFields}

\* Request bodies: text that is not JSON, or the text of a JSON value.
Bodies == {[kind |-> "text"]} \cup {[kind |-> "json", value |-> v] : v \in JsonValues}

\* ResultAsync.fromPromise(req.data.json(), ...), lines 286-288.
reqDataJson(body) ==
  IF body.kind = "json"
    THEN [kind |-> "ok", value |-> body.value]
    ELSE [kind |-> "err", error |-> "Failed to parse request data"]

\* A schema whose videoId is optional: every object passes.
safeParseAnyObject(v) ==
  IF v.type = "object"
    THEN [kind |-> "parsed", success |-> TRUE,
          data |-> [videoId |-> IF v.videoId.type = "string"
                                  THEN v.videoId.text ELSE "undefined"]]
    ELSE [kind |-> "parsed", success |-> FALSE]

\* inputJsonSchema.safeParse(value), lines 28-30 and 300: z.object with a
\* z.string() videoId.
safeParse(v) ==
  IF v.type = "object" /\ v.videoId.type = "string"
    THEN [kind |-> "parsed", success |-> TRUE,
          data |-> [videoId |-> v.videoId.text]]
    ELSE [kind |-> "parsed", success |-> FALSE]

\* The tools handed to generateText (lines 322-327) and what each one calls.
Tools == {"getVideoInfo", "getTopComments", "writeToMemory", "readFromMemory"}

ToolOp(t) ==
  CASE t = "getVideoInfo" -> "youtube.videos.list"
    [] t = "getTopComments" -> "youtube.commentThreads.list"
    [] t = "writeToMemory" -> "kv.set"
    [] t = "readFromMemory" -> "kv.get"

\* resp.json of lines 291-297 and 303-308.
InvalidRequest ==
  [kind |-> "json", success |-> FALSE,
   message |-> "Invalid request data, must be a JSON object with a videoId property"]

\* resp.json of lines 352-356.
GenerateFailed ==
  [kind |-> "json", success |-> FALSE, message |-> "Failed to generate text"]

\* resp.json(result.value.text), line 363.
GeneratedText == [kind |-> "text"]

InitAgent ==
  /\ inputKind = "ok"
  /\ inputDoc = <<>>
  /\ file = NoFile
  /\ pc = "idle"
  /\ allVideoIds = <<>>
  /\ loaded = NotLoaded
  /\ progress = NullProgress
  /\ remainingVideoIds = <<>>
  /\ i = 0
  /\ videoIds = <<>>
  /\ batchResults = <<>>
  /\ batches = <<>>
  /\ delays = 0
  /\ fetched = {}
  /\ report = "none"
  /\ reqBody \in Bodies
  /\ agentPc = "json"
  /\ jsonResult = NoResult
  /\ parseResult = NoResult
  /\ stepIdx = 1
  /\ ops = {}
  /\ response = NoResponse

\* Lines 286-298: await req.data.json(); the error response when it rejects.
AgentJson ==
  /\ agentPc = "json"
  /\ jsonResult' = reqDataJson(reqBody)
  /\ IF jsonResult'.kind = "err"
       THEN agentPc' = "responded" /\ response' = InvalidRequest
       ELSE agentPc' = "validate" /\ response' = response
  /\ UNCHANGED <<reqBody, parseResult, stepIdx, ops>>
  /\ UNCHANGED runVars

\* Lines 300-311: safeParse; the error response, or on to generateText.
AgentValidate ==
  /\ agentPc = "validate"
  /\ parseResult' = safeParse(jsonResult.value)
  /\ IF parseResult'.success
       THEN agentPc' = "generate" /\ response' = response
       ELSE agentPc' = "responded" /\ response' = InvalidRequest
  /\ stepIdx' = 1
  /\ UNCHANGED <<reqBody, jsonResult, ops>>
  /\ UNCHANGED runVars

\* Lines 313-345: one step of generateText: a call of the model and the tool
\* calls it asks for; onStepFinish counts it.  The loop ends with a step
\* without tool calls or at stepCountIs(10).
AgentStep ==
  /\ agentPc = "generate"
  /\ \E called \in SUBSET Tools :
       /\ ops' = ops \cup {"openai"} \cup {ToolOp(t) : t \in called}
       /\ agentPc' = IF called = {} \/ stepIdx = STEP_LIMIT
                       THEN "generated" ELSE "generate"
  /\ stepIdx' = stepIdx + 1
  /\ UNCHANGED <<reqBody, jsonResult, parseResult, response>>
  /\ UNCHANGED runVars

\* Lines 346-357: generateText rejects; the error response.
AgentFail ==
  /\ agentPc = "generate"
  /\ ops' = ops \cup {"openai"}
  /\ agentPc' = "responded"
  /\ response' = GenerateFailed
  /\ UNCHANGED <<reqBody, jsonResult, parseResult, stepIdx>>
  /\ UNCHANGED runVars

\* Lines 359-363: the text of the result is the response.
AgentFinish ==
  /\ agentPc = "generated"
  /\ agentPc' = "responded"
  /\ response' = GeneratedText
  /\ UNCHANGED <<reqBody, jsonResult, parseResult, stepIdx, ops>>
  /\ UNCHANGED runVars

NextAgent ==
  \/ AgentJson \/ AgentValidate \/ AgentStep \/ AgentFail \/ AgentFinish

SpecAgent == InitAgent /\ [][NextAgent]_vars

(***************************************************************************)
(* C24. The comments-watcher Agent handler starts the LLM tool-calling     *)
(* loop, and so makes any YouTube or KV call, only after the request body  *)
(* has parsed as JSON and validated as an object with a string videoId;    *)
(* when either step fails it returns a JSON response with success: false   *)
(* and performs no tool, API or KV operation.                              *)
(***************************************************************************)
ParsesAsJson(body) == body.kind = "json"

HasStringVideoId(body) ==
  /\ body.kind = "json"
  /\ body.value.type = "object"
  /\ body.value.videoId.type = "string"

C24_ValidatedBeforeLlmLoop ==
  /\ (agentPc \in {"generate", "generated"} \/ ops # {}) =>
       /\ HasStringVideoId(reqBody)
       /\ jsonResult.kind = "ok"
       /\ parseResult.kind = "parsed" /\ parseResult.success
  /\ (agentPc = "responded" /\ ~HasStringVideoId(reqBody)) =>
       /\ response.kind = "json"
       /\ response.success = FALSE
       /\ ops = {}
  /\ (agentPc = "validate") => ParsesAsJson(reqBody) /\ ops = {}

C24_Witness ==
  /\ agentPc = "responded"
  /\ ParsesAsJson(reqBody)
  /\ reqBody.value.type = "object"
  /\ reqBody.value.videoId.type = "number"
  /\ response = InvalidRequest
  /\ ops = {}

====
